---------------------------- MODULE Spec2Model ----------------------------
(*
  gh-github-mcp-server: a gh CLI extension (src/main.go) that obtains a token
  from `gh auth token`, locates the github-mcp-server helper binary or
  downloads it from the latest release, and runs it in stdio mode.

  Strings that the code searches (asset names, archive entry names, URLs,
  GOOS/GOARCH) are sequences of one-character strings, so that
  strings.Contains, strings.HasSuffix and strings.ToLower are computed
  character by character.  Filesystem paths are named by the role they play
  in findServerBinary / downloadServerBinary.
*)
EXTENDS Integers, Sequences, FiniteSets, TLC

\* ------------------------------------------------------------------ bounds
\* longest release listing (number of assets) that is enumerated
MaxAssets == 2
\* longest archive (number of entries) that is enumerated
MaxEntries == 2
\* largest exit code the helper binary returns
MaxExitCode == 2
\* number of io.Copy write chunks of one payload
MaxChunks == 2

\* ------------------------------------------------------------- characters
UpperChars ==
    <<"A","B","C","D","E","F","G","H","I","J","K","L","M",
      "N","O","P","Q","R","S","T","U","V","W","X","Y","Z">>
LowerChars ==
    <<"a","b","c","d","e","f","g","h","i","j","k","l","m",
      "n","o","p","q","r","s","t","u","v","w","x","y","z">>

\* ---------------------------------------------- string literals of main.go
\* "linux" (runtime.GOOS)
S_linux ==
    <<"l","i","n","u","x">>
\* "darwin" (runtime.GOOS)
S_darwin ==
    <<"d","a","r","w","i","n">>
\* "windows" (runtime.GOOS)
S_windows ==
    <<"w","i","n","d","o","w","s">>
\* "amd64" (runtime.GOARCH)
S_amd64 ==
    <<"a","m","d","6","4">>
\* "arm64" (runtime.GOARCH)
S_arm64 ==
    <<"a","r","m","6","4">>
\* "x86_64"
S_x86_64 ==
    <<"x","8","6","_","6","4">>
\* "mac"
S_mac ==
    <<"m","a","c">>
\* "macos"
S_macos ==
    <<"m","a","c","o","s">>
\* "osx"
S_osx ==
    <<"o","s","x">>
\* ".sha"
S_sha ==
    <<".","s","h","a">>
\* ".md5"
S_md5 ==
    <<".","m","d","5">>
\* "src"
S_src ==
    <<"s","r","c">>
\* "source"
S_source ==
    <<"s","o","u","r","c","e">>
\* ".zip"
S_zip ==
    <<".","z","i","p">>
\* ".tar.gz"
S_targz ==
    <<".","t","a","r",".","g","z">>
\* "/"
S_slash ==
    <<"/">>
\* "github-mcp-server"
S_baseName ==
    <<"g","i","t","h","u","b","-","m","c","p","-","s","e","r","v","e","r">>
\* "https://dl/" (prefix of every browser_download_url of the listing)
S_urlPrefix ==
    <<"h","t","t","p","s",":","/","/","d","l","/">>

\* ------------------------------------------- asset names that are enumerated
\* "server-linux-amd64.tar.gz"
N_linux_amd64 ==
    <<"s","e","r","v","e","r","-","l","i","n","u","x","-","a","m","d","6","4",".","t","a","r",".","g","z">>
\* "github-mcp-server_Linux_x86_64.tar.gz"
N_Linux_x86_64 ==
    <<"g","i","t","h","u","b","-","m","c","p","-","s","e","r","v","e","r","_","L","i","n","u","x","_","x","8","6","_","6","4",".","t","a","r",".","g","z">>
\* "github-mcp-server_Darwin_arm64.tar.gz"
N_Darwin_arm64 ==
    <<"g","i","t","h","u","b","-","m","c","p","-","s","e","r","v","e","r","_","D","a","r","w","i","n","_","a","r","m","6","4",".","t","a","r",".","g","z">>
\* "github-mcp-server_Windows_x86_64.zip"
N_Windows_x86_64 ==
    <<"g","i","t","h","u","b","-","m","c","p","-","s","e","r","v","e","r","_","W","i","n","d","o","w","s","_","x","8","6","_","6","4",".","z","i","p">>
\* "server-macos.zip"
N_macos ==
    <<"s","e","r","v","e","r","-","m","a","c","o","s",".","z","i","p">>
\* "server-macos-arm64.zip"
N_macos_arm64 ==
    <<"s","e","r","v","e","r","-","m","a","c","o","s","-","a","r","m","6","4",".","z","i","p">>
\* "server-osx-x86_64.zip"
N_osx_x86_64 ==
    <<"s","e","r","v","e","r","-","o","s","x","-","x","8","6","_","6","4",".","z","i","p">>
\* "server-linux.sha256"
N_linux_sha ==
    <<"s","e","r","v","e","r","-","l","i","n","u","x",".","s","h","a","2","5","6">>
\* "server-linux"
N_linux_raw ==
    <<"s","e","r","v","e","r","-","l","i","n","u","x">>
\* "source-darwin.tar.gz"
N_darwin_source ==
    <<"s","o","u","r","c","e","-","d","a","r","w","i","n",".","t","a","r",".","g","z">>

\* ------------------------------------- archive entry names that are enumerated
\* "github-mcp-server"
E_binary ==
    <<"g","i","t","h","u","b","-","m","c","p","-","s","e","r","v","e","r">>
\* "bin/github-mcp-server"
E_binBinary ==
    <<"b","i","n","/","g","i","t","h","u","b","-","m","c","p","-","s","e","r","v","e","r">>
\* "README.md"
E_readme ==
    <<"R","E","A","D","M","E",".","m","d">>
\* "github-mcp-server/"
E_dir ==
    <<"g","i","t","h","u","b","-","m","c","p","-","s","e","r","v","e","r","/">>

\* ------------------------------------------------------ package strings
\* strings.ToLower, one character: the upper-case letters map to lower case
LowerOf ==
    [c \in {UpperChars[i] : i \in 1..Len(UpperChars)} |->
        LowerChars[CHOOSE i \in 1..Len(UpperChars) : UpperChars[i] = c]]

LowerChar(c) == IF c \in DOMAIN LowerOf THEN LowerOf[c] ELSE c

\* strings.ToLower
ToLower(s) == [i \in 1..Len(s) |-> LowerChar(s[i])]

\* strings.Contains(s, substr)
Contains(s, substr) ==
    \E i \in 0..(Len(s) - Len(substr)) :
        \A j \in 1..Len(substr) : s[i + j] = substr[j]

\* strings.HasSuffix(s, suffix)
HasSuffix(s, suffix) ==
    /\ Len(s) >= Len(suffix)
    /\ \A j \in 1..Len(suffix) : s[Len(s) - Len(suffix) + j] = suffix[j]

\* the first of the indices at which a `for i, x := range seq` loop finds its
\* condition true and returns; 0 when it runs to the end
FirstIndex(hits) ==
    IF hits = {} THEN 0 ELSE CHOOSE i \in hits : \A j \in hits : i <= j

\* the indices of seq
Indices(seq) == 1..Len(seq)

\* all sequences over S of length 0..n
SeqsUpTo(S, n) == UNION {[1..k -> S] : k \in 0..n}

\* --------------------------------------------------------- release assets
\* one element of release.Assets, as GitHub lists it: the download URL ends
\* with the asset name
Asset(name) == [Name |-> name, BrowserDownloadURL |-> S_urlPrefix \o name]

AssetNames ==
    {N_linux_amd64, N_Linux_x86_64, N_Darwin_arm64, N_Windows_x86_64, N_macos,
     N_macos_arm64, N_osx_x86_64, N_linux_sha, N_linux_raw, N_darwin_source}

GoOSes == {S_linux, S_darwin, S_windows}
GoArches == {S_amd64, S_arm64}

\* the four name tests of getLatestReleaseAssetURL
\* "Try standard naming convention"
MatchStandard(name, goos, goarch) ==
    LET lowerName == ToLower(name)
    IN  /\ Contains(lowerName, ToLower(goos))
        /\ Contains(lowerName, ToLower(goarch))

\* the macOS test without its architecture part
MatchMacVariantNameOnly(name, variant, goarch) ==
    Contains(ToLower(name), variant)

\* "Try macOS alternatives", for one variant
MatchMacVariant(name, variant, goarch) ==
    LET lowerName == ToLower(name)
    IN  /\ Contains(lowerName, variant)
        /\ \/ Contains(lowerName, goarch)
           \/ Contains(lowerName, S_x86_64)
           \/ Contains(lowerName, S_amd64)

\* "Try architecture alternatives"
MatchArchAlternative(name, goos) ==
    LET lowerName == ToLower(name)
    IN  /\ Contains(lowerName, ToLower(goos))
        /\ Contains(lowerName, S_x86_64)

\* "As a last resort, look for a potentially universal binary for the OS"
MatchAnyForOS(name, goos) ==
    LET lowerName == ToLower(name)
    IN  /\ Contains(lowerName, ToLower(goos))
        /\ ~Contains(lowerName, S_sha)
        /\ ~Contains(lowerName, S_md5)
        /\ ~Contains(lowerName, S_src)
        /\ ~Contains(lowerName, S_source)

macVariants == <<S_mac, S_macos, S_osx>>

ErrNone == "nil"
ErrNoSuitableBuildFromSource ==
    "no suitable binary found for OS/ARCH. Consider building from source"
ErrNoSuitable == "no suitable binary found for OS/ARCH"

\* the from-source suggestion given on every darwin target
NoSuitableErrorAnyDarwin(goos, goarch) ==
    IF goos = S_darwin THEN ErrNoSuitableBuildFromSource ELSE ErrNoSuitable

\* the error returned when no asset was selected
NoSuitableError(goos, goarch) ==
    IF goos = S_darwin /\ goarch = S_amd64
    THEN ErrNoSuitableBuildFromSource
    ELSE ErrNoSuitable

\* an asset selection that walks the listing once and takes the first asset
\* that passes any of the tests
SelectAssetFirstOfAny(assets, goos, goarch) ==
    LET idx == FirstIndex({i \in Indices(assets) :
                   \/ MatchStandard(assets[i].Name, goos, goarch)
                   \/ goos = S_darwin /\ \E v \in Indices(macVariants) :
                         MatchMacVariant(assets[i].Name, macVariants[v], goarch)
                   \/ goarch = S_amd64 /\ MatchArchAlternative(assets[i].Name, goos)
                   \/ MatchAnyForOS(assets[i].Name, goos)})
    IN  IF idx # 0
        THEN [url |-> assets[idx].BrowserDownloadURL, err |-> ErrNone]
        ELSE [url |-> <<>>, err |-> NoSuitableError(goos, goarch)]

\* the asset selection of getLatestReleaseAssetURL: the four loops in order,
\* each returning at its first match
SelectAsset(assets, goos, goarch) ==
    LET std == FirstIndex({i \in Indices(assets) :
                   MatchStandard(assets[i].Name, goos, goarch)})
        variant ==
               IF goos = S_darwin
               THEN FirstIndex({v \in Indices(macVariants) :
                        \E i \in Indices(assets) :
                           MatchMacVariant(assets[i].Name, macVariants[v], goarch)})
               ELSE 0
        mac == IF variant = 0 THEN 0
               ELSE FirstIndex({i \in Indices(assets) :
                        MatchMacVariant(assets[i].Name, macVariants[variant], goarch)})
        alt == IF goarch = S_amd64
               THEN FirstIndex({i \in Indices(assets) :
                        MatchArchAlternative(assets[i].Name, goos)})
               ELSE 0
        any == FirstIndex({i \in Indices(assets) : MatchAnyForOS(assets[i].Name, goos)})
        found(i) == [url |-> assets[i].BrowserDownloadURL, err |-> ErrNone]
    IN  IF std # 0 THEN found(std)
        ELSE IF mac # 0 THEN found(mac)
        ELSE IF alt # 0 THEN found(alt)
        ELSE IF any # 0 THEN found(any)
        ELSE [url |-> <<>>, err |-> NoSuitableError(goos, goarch)]

\* ------------------------------------------------------------------ state
VARIABLES
    \* inputs of one process invocation (never assigned after Init)
    osArgs,            \* os.Args; os.Args[i] of the code is osArgs[i + 1]
    goos,              \* runtime.GOOS
    goarch,            \* runtime.GOARCH
    homeOk,            \* os.UserHomeDir() succeeds
    execOk,            \* os.Executable() succeeds
    writable,          \* the process may create entries under the data directory
    fs0,               \* the filesystem when the process started
    \* the process
    pc,                \* position in main / ensureServerBinary / downloadServerBinary
    env,               \* the process environment
    fs,                \* kind of the file at each path
    targetData,        \* content of <dataDir>/bin/<binaryName()>, a sequence of chunks
    tmpHandles,        \* open handles on the temporary file
    deferred,          \* downloadServerBinary's `defer os.Remove(tmpFile.Name())` is registered
    release,           \* release.Assets as decoded from the API response
    body,              \* the downloaded asset
    binPath,           \* result of findServerBinary ("" when not found)
    assetURL,          \* result of getLatestReleaseAssetURL
    authHeader,        \* the release request carried an Authorization header
    extractKind,       \* branch taken at "Extract the binary"
    serverPath,        \* result of ensureServerBinary
    cmdArgs,           \* cmd.Args of the helper, without the program path
    helperExit,        \* exit code of the helper, -1 while it has not exited
    lastErr,           \* the error the process reported
    exitCode,          \* exit code of the launcher, -1 while it runs
    \* what the process has done so far
    tokenCalls,        \* runs of `gh auth token`
    releaseRequests,   \* GET requests to releaseAPIURL
    downloadRequests,  \* GET requests to an asset URL
    targetCreates,     \* os.Create / os.Rename onto the target path
    chmodCalls,        \* os.Chmod calls
    \* two concurrent installers of the same target path
    writers,           \* per installer: position, payload, open descriptor, offset
    inodes,            \* content and mode of each file
    targetInode,       \* the file the target path names, 0 when there is none
    finished           \* the installers that returned, in order

inputs == <<osArgs, goos, goarch, homeOk, execOk, writable, fs0>>
history == <<tokenCalls, releaseRequests, downloadRequests, targetCreates, chmodCalls>>
process == <<pc, env, fs, targetData, tmpHandles, deferred, release, body, binPath,
             assetURL, authHeader, extractKind, serverPath, cmdArgs, helperExit,
             lastErr, exitCode>>
race == <<writers, inodes, targetInode, finished>>
vars == <<inputs, process, history, race>>

\* ------------------------------------------------------------- filesystem
\* the paths the program touches, by role
P_custom == "$GITHUB_MCP_SERVER_PATH"
P_workspaceBin == "$GITHUB_MCP_SERVER_DIR/bin/<binaryName>"
P_dataDir == "<dataDir>"
P_binDir == "<dataDir>/bin"
P_target == "<dataDir>/bin/<binaryName>"
P_execBin == "<execDir>/bin/<binaryName>"
P_execNext == "<execDir>/<binaryName>"
P_lookPath == "$PATH/github-mcp-server"
P_tmp == "<tmp>/github-mcp-server-*"

Paths ==
    {P_custom, P_workspaceBin, P_dataDir, P_binDir, P_target, P_execBin,
     P_execNext, P_lookPath, P_tmp}

\* nothing, a directory, a regular file without / with an executable bit
Kinds == {"none", "dir", "file", "xfile"}

\* fileExists: os.Stat succeeds and the entry is not a directory
fileExists(f, filename) == f[filename] \in {"file", "xfile"}

\* exec.LookPath("github-mcp-server"): the entry found on PATH must be an
\* executable non-directory; "" stands for lookErr # nil
LookPath(f) == IF f[P_lookPath] = "xfile" THEN P_lookPath ELSE ""

\* os.MkdirAll(path, 0755) of a directory whose parent is `parent` ("" when the
\* parent chain is not modelled): an existing directory is left alone, a
\* missing one is created when permitted, anything else is an error
MkdirAll(f, path, parent, w) ==
    IF /\ f[path] = "none"
       /\ w
       /\ (parent = "" \/ f[parent] = "dir")
    THEN [f EXCEPT ![path] = "dir"]
    ELSE f

\* getExtensionDataDir returns "." without creating anything when neither
\* XDG_DATA_HOME is set nor the home directory is known
DataDirIsCwd(e, home) == e.XDG_DATA_HOME = "" /\ ~home

\* getExtensionDataDir that also creates the bin directory
getExtensionDataDirWithBin(e, home, f, w) ==
    IF DataDirIsCwd(e, home)
    THEN f
    ELSE MkdirAll(MkdirAll(f, P_dataDir, "", w), P_binDir, P_dataDir, w)

\* getExtensionDataDir: its effect on the filesystem (the path it returns is
\* P_dataDir whichever branch computes it); the MkdirAll error is dropped
getExtensionDataDir(e, home, f, w) ==
    IF DataDirIsCwd(e, home) THEN f ELSE MkdirAll(f, P_dataDir, "", w)

\* findServerBinary with the two launcher-directory checks in the other order
findServerBinaryNextFirst(e, home, exeOk, f, w) ==
    LET f1 == getExtensionDataDir(e, home, f, w)
        lp == LookPath(f1)
    IN  IF e.GITHUB_MCP_SERVER_PATH # "" /\ fileExists(f, P_custom)
        THEN [path |-> P_custom, fs |-> f]
        ELSE IF e.GITHUB_MCP_SERVER_DIR # "" /\ fileExists(f, P_workspaceBin)
        THEN [path |-> P_workspaceBin, fs |-> f]
        ELSE IF fileExists(f1, P_target)
        THEN [path |-> P_target, fs |-> f1]
        ELSE IF exeOk /\ fileExists(f1, P_execNext)
        THEN [path |-> P_execNext, fs |-> f1]
        ELSE IF exeOk /\ fileExists(f1, P_execBin)
        THEN [path |-> P_execBin, fs |-> f1]
        ELSE IF lp # ""
        THEN [path |-> lp, fs |-> f1]
        ELSE [path |-> "", fs |-> f1]

\* findServerBinary: the path found ("" when none) and the filesystem it leaves
findServerBinary(e, home, exeOk, f, w) ==
    LET f1 == getExtensionDataDir(e, home, f, w)
        lp == LookPath(f1)
    IN  IF e.GITHUB_MCP_SERVER_PATH # "" /\ fileExists(f, P_custom)
        THEN [path |-> P_custom, fs |-> f]
        ELSE IF e.GITHUB_MCP_SERVER_DIR # "" /\ fileExists(f, P_workspaceBin)
        THEN [path |-> P_workspaceBin, fs |-> f]
        ELSE IF fileExists(f1, P_target)
        THEN [path |-> P_target, fs |-> f1]
        ELSE IF exeOk /\ fileExists(f1, P_execBin)
        THEN [path |-> P_execBin, fs |-> f1]
        ELSE IF exeOk /\ fileExists(f1, P_execNext)
        THEN [path |-> P_execNext, fs |-> f1]
        ELSE IF lp # ""
        THEN [path |-> lp, fs |-> f1]
        ELSE [path |-> "", fs |-> f1]

\* os.Remove(name): on Windows a file with an open handle cannot be removed;
\* the deferred call drops the error
OsRemove(f, name, handles, os) ==
    IF f[name] = "none" \/ (os = S_windows /\ handles > 0)
    THEN f
    ELSE [f EXCEPT ![name] = "none"]

\* a return of downloadServerBinary that runs no deferred call
RunDeferredSkipped(f, isDeferred, handles, os) == f

\* the filesystem when downloadServerBinary returns: its deferred
\* os.Remove(tmpFile.Name()) runs if it was registered
RunDeferred(f, isDeferred, handles, os) ==
    IF isDeferred THEN OsRemove(f, P_tmp, handles, os) ELSE f

\* os.Create(targetPath) succeeds: the directory exists, the path is not a
\* directory, and a missing file may be created
CanCreate(f, w) ==
    /\ f[P_binDir] = "dir"
    /\ f[P_target] # "dir"
    /\ (f[P_target] = "none" => w)

\* os.Create(name): creates the file (not executable) or truncates it
OsCreate(f, name) ==
    IF f[name] = "none" THEN [f EXCEPT ![name] = "file"] ELSE f

\* os.Chmod(name, 0755)
OsChmod(f, name) == [f EXCEPT ![name] = "xfile"]

\* a write of one chunk at offset off (0-based) of a file's content; a gap
\* left by a truncation reads as zero chunks
WriteAt(data, off, chunk) ==
    [i \in 1..(IF Len(data) > off + 1 THEN Len(data) ELSE off + 1) |->
        IF i = off + 1 THEN chunk
        ELSE IF i <= Len(data) THEN data[i]
        ELSE <<0, 0>>]

\* io.Copy(dst, src) that wrote the first k chunks of payload to a file
\* opened at offset 0
CopyChunks(data, payload, k) ==
    LET RECURSIVE go(_, _)
        go(d, i) == IF i > k THEN d ELSE go(WriteAt(d, i - 1, payload[i]), i + 1)
    IN  go(data, 1)

\* the content of the payload numbered id, in MaxChunks chunks
Payload(id) == [i \in 1..MaxChunks |-> <<id, i>>]

\* ------------------------------------------------------- credential tool
\* what `gh auth token` can do: its error and its standard output
GhOutcomes ==
    {[err |-> "nil", stdout |-> <<"g","h","o","_","1","\n">>],
     [err |-> "nil", stdout |-> <<" ","\n">>],
     [err |-> "exit status 1", stdout |-> <<>>],
     [err |-> "executable file not found in $PATH", stdout |-> <<>>]}

WhiteSpace == {" ", "\n", "\t", "\r"}

\* strings.TrimSpace
TrimSpace(s) ==
    LET RECURSIVE left(_)
        left(i) == IF i <= Len(s) /\ s[i] \in WhiteSpace THEN left(i + 1) ELSE i
        RECURSIVE right(_)
        right(j) == IF j >= 1 /\ s[j] \in WhiteSpace THEN right(j - 1) ELSE j
    IN  IF left(1) > Len(s) THEN <<>> ELSE SubSeq(s, left(1), right(Len(s)))

\* getGitHubToken, given what the subprocess did
getGitHubToken(out) ==
    LET token == TrimSpace(out.stdout)
    IN  IF out.err = "exit status 1"
        THEN [token |-> <<>>, err |-> "failed to get GitHub token"]
        ELSE IF out.err # "nil"
        THEN [token |-> <<>>, err |-> "failed to execute gh auth token"]
        ELSE IF token = <<>>
        THEN [token |-> <<>>, err |-> "received empty token from GitHub CLI"]
        ELSE [token |-> token, err |-> ErrNone]

\* a credential tool that is run once and whose answer is kept
ExecGhAuthTokenOnce(calls) == IF calls = 0 THEN 1 ELSE calls

\* exec.Command("gh", "auth", "token").Output(): one more run of the tool
ExecGhAuthToken(calls) == calls + 1

\* ---------------------------------------------------------------- archives
Entry(name, type, id) == [Name |-> name, Type |-> type, Data |-> id]

\* entries an archive is built from; Type is the tar Typeflag / the zip mode
EntryPool ==
    {Entry(E_binary, "reg", 1), Entry(E_binBinary, "reg", 2),
     Entry(E_readme, "reg", 3), Entry(E_dir, "dir", 4),
     Entry(E_binary, "symlink", 5)}

\* a downloaded asset: unreadable as an archive, or a list of entries
Bodies ==
    {[wellFormed |-> FALSE, entries |-> <<>>]}
        \cup {[wellFormed |-> TRUE, entries |-> es] : es \in SeqsUpTo(EntryPool, MaxEntries)}

NoBody == [wellFormed |-> FALSE, entries |-> <<>>]

\* extractFromZip: "Find the binary file in the zip"; 0 is binaryFile == nil
ZipBinaryFile(entries) ==
    FirstIndex({i \in Indices(entries) :
        /\ Contains(entries[i].Name, S_baseName)
        /\ ~HasSuffix(entries[i].Name, S_slash)})

\* the scan of extractFromTarGz without the test of header.Typeflag
TarBinaryHeaderAnyType(entries) ==
    FirstIndex({i \in Indices(entries) : Contains(entries[i].Name, S_baseName)})

\* extractFromTarGz: "Find and extract the binary"; 0 is reaching io.EOF
TarBinaryHeader(entries) ==
    FirstIndex({i \in Indices(entries) :
        /\ Contains(entries[i].Name, S_baseName)
        /\ entries[i].Type = "reg"})

ErrNotFoundZip == "binary not found in zip"
ErrNotFoundTarGz == "binary not found in tar.gz"

\* ------------------------------------------------------------ the launcher
\* a launcher that passes the helper's exit code on
ExitAfterRunPropagated(code) == code

\* exit code of main after cmd.Run() returned for a helper that exited with code
ExitAfterRun(code) == IF code # 0 THEN 1 ELSE 0

\* os.Exit(code) / return from main
Exit(code, err) ==
    /\ pc' = "exit"
    /\ exitCode' = code
    /\ lastErr' = err

\* main, up to the call of ensureServerBinary
Main ==
    /\ pc = "main"
    /\ IF Len(osArgs) > 1 /\ osArgs[2] \in {"-v", "--version"}
       THEN /\ Exit(0, ErrNone)
            /\ UNCHANGED <<env, tokenCalls>>
       ELSE IF Len(osArgs) > 1 /\ osArgs[2] = "stdio"
       THEN \E out \in GhOutcomes :
              LET r == getGitHubToken(out)
              IN  /\ tokenCalls' = ExecGhAuthToken(tokenCalls)
                  /\ IF r.err # ErrNone
                     THEN /\ Exit(1, r.err)
                          /\ UNCHANGED env
                     ELSE /\ env' = [env EXCEPT !.GITHUB_PERSONAL_ACCESS_TOKEN = r.token]
                          /\ pc' = "ensureServerBinary"
                          /\ UNCHANGED <<exitCode, lastErr>>
       ELSE /\ Exit(0, ErrNone)
            /\ UNCHANGED <<env, tokenCalls>>
    /\ UNCHANGED <<inputs, race, fs, targetData, tmpHandles, deferred, release, body,
                   binPath, assetURL, authHeader, extractKind, serverPath, cmdArgs,
                   helperExit, releaseRequests, downloadRequests, targetCreates,
                   chmodCalls>>

\* ensureServerBinary, up to the call of downloadServerBinary
EnsureServerBinary ==
    /\ pc = "ensureServerBinary"
    /\ LET r == findServerBinary(env, homeOk, execOk, fs, writable)
       IN  /\ binPath' = r.path
           /\ fs' = r.fs
           /\ IF r.path # ""
              THEN /\ serverPath' = r.path
                   /\ pc' = "run"
              ELSE /\ pc' = "getLatestReleaseAssetURL"
                   /\ UNCHANGED serverPath
    /\ UNCHANGED <<inputs, race, history, env, targetData, tmpHandles, deferred,
                   release, body, assetURL, authHeader, extractKind, cmdArgs,
                   helperExit, lastErr, exitCode>>

\* what the release API can answer, given the listings it may serve
ReleaseResponses(listings) ==
    {[status |-> "transport error", json |-> FALSE, assets |-> <<>>],
     [status |-> "403", json |-> FALSE, assets |-> <<>>],
     [status |-> "200", json |-> FALSE, assets |-> <<>>]}
        \cup {[status |-> "200", json |-> TRUE, assets |-> l] : l \in listings}

\* getLatestReleaseAssetURL, called first by downloadServerBinary: the token
\* is asked for again and attached when there is one, the listing is fetched
\* and decoded, an asset is selected
GetLatestReleaseAssetURL(listings) ==
    /\ pc = "getLatestReleaseAssetURL"
    /\ tokenCalls' = ExecGhAuthToken(tokenCalls)
    /\ releaseRequests' = releaseRequests + 1
    /\ \E resp \in ReleaseResponses(listings) :
          LET sel == SelectAsset(resp.assets, goos, goarch)
          IN  IF resp.status = "transport error"
              THEN /\ Exit(1, "failed to get latest release info")
                   /\ UNCHANGED <<release, assetURL>>
              ELSE IF resp.status # "200"
              THEN /\ Exit(1, "failed to get latest release info: HTTP")
                   /\ UNCHANGED <<release, assetURL>>
              ELSE IF ~resp.json
              THEN /\ Exit(1, "failed to parse release info")
                   /\ UNCHANGED <<release, assetURL>>
              ELSE /\ release' = resp.assets
                   /\ IF sel.err # ErrNone
                      THEN /\ Exit(1, sel.err)
                           /\ UNCHANGED assetURL
                      ELSE /\ assetURL' = sel.url
                           /\ pc' = "download"
                           /\ UNCHANGED <<exitCode, lastErr>>
    /\ \E out \in GhOutcomes : authHeader' = (getGitHubToken(out).token # <<>>)
    /\ UNCHANGED <<inputs, race, env, fs, targetData, tmpHandles, deferred, body,
                   binPath, extractKind, serverPath, cmdArgs, helperExit,
                   downloadRequests, targetCreates, chmodCalls>>

\* downloadServerBinary from "Create the data directory" to the registration
\* of the deferred removal of the temporary file
Download(bodies) ==
    /\ pc = "download"
    /\ LET f1 == getExtensionDataDir(env, homeOk, fs, writable)
           f2 == MkdirAll(f1, P_binDir, P_dataDir, writable)
       IN  IF f2[P_binDir] # "dir"
           THEN /\ Exit(1, "failed to create binary directory")
                /\ fs' = f2
                /\ UNCHANGED <<downloadRequests, body, tmpHandles, deferred>>
           ELSE /\ downloadRequests' = downloadRequests + 1
                /\ \E resp \in {"transport error", "404", "200"} :
                     IF resp = "transport error"
                     THEN /\ Exit(1, "failed to download binary")
                          /\ fs' = f2
                          /\ UNCHANGED <<body, tmpHandles, deferred>>
                     ELSE IF resp # "200"
                     THEN /\ Exit(1, "failed to download binary: HTTP")
                          /\ fs' = f2
                          /\ UNCHANGED <<body, tmpHandles, deferred>>
                     ELSE \E b \in bodies, created \in BOOLEAN :
                            /\ body' = b
                            /\ IF ~created
                               THEN /\ Exit(1, "failed to create temporary file")
                                    /\ fs' = f2
                                    /\ UNCHANGED <<tmpHandles, deferred>>
                               ELSE /\ fs' = [f2 EXCEPT ![P_tmp] = "file"]
                                    /\ tmpHandles' = 1
                                    /\ deferred' = TRUE
                                    /\ pc' = "save"
                                    /\ UNCHANGED <<exitCode, lastErr>>
    /\ UNCHANGED <<inputs, race, env, targetData, release, binPath, assetURL,
                   authHeader, extractKind, serverPath, cmdArgs, helperExit,
                   tokenCalls, releaseRequests, targetCreates, chmodCalls>>

\* downloadServerBinary: "Save the downloaded file"
Save ==
    /\ pc = "save"
    /\ tmpHandles' = tmpHandles - 1
    /\ \E copied \in BOOLEAN :
          IF ~copied
          THEN /\ Exit(1, "failed to save downloaded file")
               /\ fs' = RunDeferred(fs, deferred, tmpHandles', goos)
          ELSE /\ pc' = "extract"
               /\ UNCHANGED <<fs, exitCode, lastErr>>
    /\ UNCHANGED <<inputs, race, history, env, targetData, deferred, release, body,
                   binPath, assetURL, authHeader, extractKind, serverPath, cmdArgs,
                   helperExit>>

\* the tail shared by extractFromZip and extractFromTarGz once the entry is
\* known (0: none): os.Create(targetPath), then io.Copy that wrote k chunks
ExtractEntry(idx, notFound, entries, f, data, w, k) ==
    LET payload == Payload(entries[idx].Data)
    IN  IF idx = 0
        THEN [err |-> notFound, fs |-> f, data |-> data, created |-> FALSE]
        ELSE IF ~CanCreate(f, w)
        THEN [err |-> "open target: failed", fs |-> f, data |-> data, created |-> FALSE]
        ELSE [err |-> IF k < Len(payload) THEN "copy: failed" ELSE ErrNone,
              fs |-> OsCreate(f, P_target),
              data |-> CopyChunks(<<>>, payload, k),
              created |-> TRUE]

\* extractFromZip(zipPath, targetPath)
extractFromZip(b, f, data, w, k) ==
    IF ~b.wellFormed
    THEN [err |-> "zip: not a valid zip file", fs |-> f, data |-> data, created |-> FALSE]
    ELSE ExtractEntry(ZipBinaryFile(b.entries), ErrNotFoundZip, b.entries, f, data, w, k)

\* extractFromTarGz(tarPath, targetPath)
extractFromTarGz(b, f, data, w, k) ==
    IF ~b.wellFormed
    THEN [err |-> "gzip: invalid header", fs |-> f, data |-> data, created |-> FALSE]
    ELSE ExtractEntry(TarBinaryHeader(b.entries), ErrNotFoundTarGz, b.entries, f, data, w, k)

\* os.Rename(tmpFile.Name(), targetPath), "Direct binary download"; renamed
\* is whether the operating system carried it out
RenameDirect(f, data, renamed) ==
    IF renamed /\ f[P_target] # "dir"
    THEN [err |-> ErrNone,
          fs |-> [f EXCEPT ![P_tmp] = "none", ![P_target] = "file"],
          data |-> Payload(0),
          created |-> TRUE]
    ELSE [err |-> "rename: failed", fs |-> f, data |-> data, created |-> FALSE]

\* downloadServerBinary after the extraction returned r
AfterExtract(r, kind) ==
    /\ extractKind' = kind
    /\ targetData' = r.data
    /\ targetCreates' = targetCreates + (IF r.created THEN 1 ELSE 0)
    /\ IF r.err # ErrNone
       THEN /\ Exit(1, r.err)
            /\ fs' = RunDeferred(r.fs, deferred, tmpHandles, goos)
       ELSE /\ pc' = "chmod"
            /\ fs' = r.fs
            /\ UNCHANGED <<exitCode, lastErr>>
    /\ UNCHANGED <<inputs, race, env, tmpHandles, deferred, release, body, binPath,
                   assetURL, authHeader, serverPath, cmdArgs, helperExit, tokenCalls,
                   releaseRequests, downloadRequests, chmodCalls>>

\* downloadServerBinary: "Extract the binary", asset URL ending in .zip
ExtractZip ==
    /\ pc = "extract"
    /\ HasSuffix(assetURL, S_zip)
    /\ \E k \in 0..MaxChunks :
          AfterExtract(extractFromZip(body, fs, targetData, writable, k), "zip")

\* downloadServerBinary: "Extract the binary", asset URL ending in .tar.gz
ExtractTarGz ==
    /\ pc = "extract"
    /\ ~HasSuffix(assetURL, S_zip)
    /\ HasSuffix(assetURL, S_targz)
    /\ \E k \in 0..MaxChunks :
          AfterExtract(extractFromTarGz(body, fs, targetData, writable, k), "tar.gz")

\* downloadServerBinary: "Direct binary download"
ExtractDirect ==
    /\ pc = "extract"
    /\ ~HasSuffix(assetURL, S_zip)
    /\ ~HasSuffix(assetURL, S_targz)
    /\ \E renamed \in BOOLEAN :
          AfterExtract(RenameDirect(fs, targetData, renamed), "direct")

\* downloadServerBinary: "Make the binary executable", and its return
Chmod ==
    /\ pc = "chmod"
    /\ chmodCalls' = chmodCalls + 1
    /\ \E changed \in BOOLEAN :
          IF ~changed
          THEN /\ Exit(1, "failed to make binary executable")
               /\ fs' = RunDeferred(fs, deferred, tmpHandles, goos)
               /\ UNCHANGED serverPath
          ELSE /\ fs' = RunDeferred(OsChmod(fs, P_target), deferred, tmpHandles, goos)
               /\ serverPath' = P_target
               /\ pc' = "run"
               /\ UNCHANGED <<exitCode, lastErr>>
    /\ UNCHANGED <<inputs, race, env, targetData, tmpHandles, deferred, release, body,
                   binPath, assetURL, authHeader, extractKind, cmdArgs, helperExit,
                   tokenCalls, releaseRequests, downloadRequests, targetCreates>>

\* main: "Execute the actual MCP server with stdio mode"; the helper starts
\* only from an executable file, and may fail to start even then
Run ==
    /\ pc = "run"
    /\ cmdArgs' = <<"stdio">> \o SubSeq(osArgs, 3, Len(osArgs))
    /\ \E started \in BOOLEAN, code \in 0..MaxExitCode :
          IF started /\ fs[serverPath] = "xfile"
          THEN /\ helperExit' = code
               /\ Exit(ExitAfterRun(code),
                       IF code # 0 THEN "Error running MCP server" ELSE ErrNone)
          ELSE /\ Exit(1, "Error running MCP server")
               /\ UNCHANGED helperExit
    /\ UNCHANGED <<inputs, race, history, env, fs, targetData, tmpHandles, deferred,
                   release, body, binPath, assetURL, authHeader, extractKind,
                   serverPath>>

\* ------------------------------------------------------------ initial states
ArgLists ==
    {<<"gh-github-mcp-server">>,
     <<"gh-github-mcp-server", "-v">>,
     <<"gh-github-mcp-server", "--version">>,
     <<"gh-github-mcp-server", "help">>,
     <<"gh-github-mcp-server", "stdio">>,
     <<"gh-github-mcp-server", "stdio", "--read-only">>}

\* the data directory, its bin directory and the installed binary: what can
\* exist together
DataGroups(kinds) ==
    {[dataDir |-> "none", binDir |-> "none", target |-> "none"],
     [dataDir |-> "file", binDir |-> "none", target |-> "none"],
     [dataDir |-> "dir", binDir |-> "none", target |-> "none"],
     [dataDir |-> "dir", binDir |-> "file", target |-> "none"]}
        \cup {[dataDir |-> "dir", binDir |-> "dir", target |-> t] : t \in kinds}

\* the launcher before main runs.  An override that is not set names no file;
\* without os.Executable() there is no launcher directory; "." exists.
InitLauncher(argLists, oses, arches, customs, workspaces, xdgs, homes, execs, kinds, lookKinds, writables) ==
    /\ osArgs \in argLists
    /\ goos \in oses
    /\ goarch \in arches
    /\ execOk \in execs
    /\ writable \in writables
    /\ \E custom \in customs, ws \in workspaces, xdg \in xdgs :
          env = [GITHUB_MCP_SERVER_PATH |-> custom,
                 GITHUB_MCP_SERVER_DIR |-> ws,
                 XDG_DATA_HOME |-> xdg,
                 GITHUB_PERSONAL_ACCESS_TOKEN |-> <<>>]
    /\ homeOk \in homes
    /\ \E c \in kinds, wb \in kinds, d \in DataGroups(kinds),
          eb \in kinds, en \in kinds, lp \in lookKinds :
          /\ env.GITHUB_MCP_SERVER_PATH = "" => c = "none"
          /\ env.GITHUB_MCP_SERVER_DIR = "" => wb = "none"
          /\ ~execOk => eb = "none" /\ en = "none"
          /\ DataDirIsCwd(env, homeOk) => d.dataDir = "dir"
          /\ fs = [p \in Paths |->
                     CASE p = P_custom -> c
                       [] p = P_workspaceBin -> wb
                       [] p = P_dataDir -> d.dataDir
                       [] p = P_binDir -> d.binDir
                       [] p = P_target -> d.target
                       [] p = P_execBin -> eb
                       [] p = P_execNext -> en
                       [] p = P_lookPath -> lp
                       [] OTHER -> "none"]
    /\ fs0 = fs
    /\ pc = "main"
    /\ targetData = <<>>
    /\ tmpHandles = 0
    /\ deferred = FALSE
    /\ release = <<>>
    /\ body = NoBody
    /\ binPath = ""
    /\ assetURL = <<>>
    /\ authHeader = FALSE
    /\ extractKind = "none"
    /\ serverPath = ""
    /\ cmdArgs = <<>>
    /\ helperExit = -1
    /\ lastErr = ErrNone
    /\ exitCode = -1
    /\ tokenCalls = 0
    /\ releaseRequests = 0
    /\ downloadRequests = 0
    /\ targetCreates = 0
    /\ chmodCalls = 0

\* no concurrent installers are modelled
NoRace ==
    /\ writers = <<>>
    /\ inodes = <<>>
    /\ targetInode = 0
    /\ finished = <<>>

\* listings with one asset per kind of download
OneAssetListings ==
    {<<>>, <<Asset(N_linux_amd64)>>, <<Asset(N_Windows_x86_64)>>, <<Asset(N_linux_raw)>>}

\* every listing of at most MaxAssets assets
Listings == SeqsUpTo({Asset(n) : n \in AssetNames}, MaxAssets)

FewBodies ==
    {[wellFormed |-> TRUE, entries |-> <<Entry(E_binary, "reg", 1)>>],
     [wellFormed |-> TRUE, entries |-> <<Entry(E_readme, "reg", 3)>>]}

\* --------------------------------------------------------- specifications
\* the launcher, over every argument list, answer of the credential tool,
\* archive content and helper exit code
Init ==
    /\ InitLauncher(ArgLists, {S_linux, S_windows}, {S_amd64}, {""}, {""}, {""},
                    {TRUE}, {FALSE}, {"none", "dir", "xfile"}, {"none", "xfile"},
                    BOOLEAN)
    /\ NoRace

Next ==
    \/ Main
    \/ EnsureServerBinary
    \/ GetLatestReleaseAssetURL(OneAssetListings)
    \/ Download(Bodies)
    \/ Save
    \/ ExtractZip
    \/ ExtractTarGz
    \/ ExtractDirect
    \/ Chmod
    \/ Run

Spec == Init /\ [][Next]_vars

\* the Binary Locator, over every combination of candidate files
InitLocate ==
    /\ InitLauncher({<<"gh-github-mcp-server", "stdio">>}, {S_linux}, {S_amd64},
                    {"", P_custom}, {"", "<workspace>"}, {"", "<xdg>"}, BOOLEAN,
                    BOOLEAN, {"none", "dir", "xfile"}, Kinds, BOOLEAN)
    /\ NoRace

NextLocate ==
    \/ Main
    \/ EnsureServerBinary
    \/ Run

SpecLocate == InitLocate /\ [][NextLocate]_vars

\* the Release Resolver, over every listing and target platform
InitResolve ==
    /\ InitLauncher({<<"gh-github-mcp-server", "stdio">>}, GoOSes, GoArches,
                    {""}, {""}, {""}, {TRUE}, {FALSE}, {"none"}, {"none"}, {TRUE})
    /\ fs[P_binDir] = "dir"
    /\ NoRace

NextResolve ==
    \/ Main
    \/ EnsureServerBinary
    \/ GetLatestReleaseAssetURL(Listings)
    \/ Download(FewBodies)
    \/ Save
    \/ ExtractZip
    \/ ExtractTarGz
    \/ ExtractDirect
    \/ Chmod
    \/ Run

SpecResolve == InitResolve /\ [][NextResolve]_vars

\* ----------------------------------------------- two concurrent installers
\* Two launcher processes that both found no binary and install to the same
\* target path.  Each has downloaded its asset to its own temporary file
\* (file w of installer w) and is at "Extract the binary".  A file is a
\* content and a mode; the target path names file targetInode.
Installers == {1, 2}

\* the file os.Create makes when the target path names none
NewInode == 3

\* position of installer w after its last write
AfterWrite(w, off) == IF off = MaxChunks THEN "chmod" ELSE "copy"

\* extractFromZip / extractFromTarGz: dst, err := os.Create(targetPath)
RaceCreate(w) ==
    /\ writers[w].pc = "extract"
    /\ writers[w].kind \in {"zip", "tar.gz"}
    /\ IF targetInode = 0
       THEN /\ targetInode' = NewInode
            /\ inodes' = [inodes EXCEPT ![NewInode] = [data |-> <<>>, mode |-> "file"]]
       ELSE /\ inodes' = [inodes EXCEPT ![targetInode].data = <<>>]
            /\ UNCHANGED targetInode
    /\ writers' = [writers EXCEPT ![w].pc = "copy", ![w].fd = targetInode', ![w].off = 0]
    /\ UNCHANGED <<inputs, process, history, finished>>

\* extractFromZip / extractFromTarGz: one write of io.Copy(dst, src), at the
\* offset of the installer's own descriptor
RaceWrite(w) ==
    /\ writers[w].pc = "copy"
    /\ LET off == writers[w].off
           chunk == Payload(writers[w].payload)[off + 1]
       IN  /\ inodes' = [inodes EXCEPT ![writers[w].fd].data = WriteAt(@, off, chunk)]
           /\ writers' = [writers EXCEPT ![w].off = off + 1,
                                         ![w].pc = AfterWrite(w, off + 1)]
    /\ UNCHANGED <<inputs, process, history, targetInode, finished>>

\* downloadServerBinary: os.Rename(tmpFile.Name(), targetPath)
RaceRename(w) ==
    /\ writers[w].pc = "extract"
    /\ writers[w].kind = "direct"
    /\ targetInode' = w
    /\ writers' = [writers EXCEPT ![w].pc = "chmod"]
    /\ UNCHANGED <<inputs, process, history, inodes, finished>>

\* downloadServerBinary: os.Chmod(targetPath, 0755), and its return
RaceChmod(w) ==
    /\ writers[w].pc = "chmod"
    /\ inodes' = [inodes EXCEPT ![targetInode].mode = "xfile"]
    /\ writers' = [writers EXCEPT ![w].pc = "done"]
    /\ finished' = Append(finished, w)
    /\ UNCHANGED <<inputs, process, history, targetInode>>

InitRace ==
    /\ InitLauncher({<<"gh-github-mcp-server", "stdio">>}, {S_linux}, {S_amd64},
                    {""}, {""}, {""}, {TRUE}, {FALSE}, {"none"}, {"none"}, {TRUE})
    /\ fs[P_binDir] = "dir"
    /\ \E k1 \in {"zip", "tar.gz", "direct"}, k2 \in {"zip", "tar.gz", "direct"},
          p2 \in Installers :
          writers = [w \in Installers |->
                       [pc |-> "extract",
                        kind |-> IF w = 1 THEN k1 ELSE k2,
                        payload |-> IF w = 1 THEN 1 ELSE p2,
                        fd |-> 0,
                        off |-> 0]]
    /\ inodes = [i \in 1..NewInode |->
                   IF i \in Installers
                   THEN [data |-> Payload(writers[i].payload), mode |-> "file"]
                   ELSE [data |-> <<>>, mode |-> "none"]]
    /\ targetInode = 0
    /\ finished = <<>>

NextRace ==
    \E w \in Installers :
        \/ RaceCreate(w)
        \/ RaceWrite(w)
        \/ RaceRename(w)
        \/ RaceChmod(w)

SpecRace == InitRace /\ [][NextRace]_vars

\* ------------------------------------------------------------------ claims
\* the six candidates of the Binary Locator, by rank
CandidatePath ==
    <<P_custom, P_workspaceBin, P_target, P_execBin, P_execNext, P_lookPath>>

\* candidate k was there when the process started: ranks 1 and 2 need their
\* environment variable, ranks 4 and 5 the launcher's own path; ranks 1 to 5
\* hold a file that is not a directory, rank 6 is what the PATH lookup
\* resolves (an executable file)
CandidateExists(k) ==
    CASE k = 1 -> env.GITHUB_MCP_SERVER_PATH # "" /\ fs0[P_custom] \in {"file", "xfile"}
      [] k = 2 -> env.GITHUB_MCP_SERVER_DIR # "" /\ fs0[P_workspaceBin] \in {"file", "xfile"}
      [] k = 3 -> fs0[P_target] \in {"file", "xfile"}
      [] k = 4 -> execOk /\ fs0[P_execBin] \in {"file", "xfile"}
      [] k = 5 -> execOk /\ fs0[P_execNext] \in {"file", "xfile"}
      [] k = 6 -> fs0[P_lookPath] = "xfile"

\* findServerBinary has just returned to ensureServerBinary
LocatorReturned ==
    /\ pc \in {"run", "getLatestReleaseAssetURL"}
    /\ targetCreates = 0

\* C1: whichever candidates exist, findServerBinary returns the existing
\* candidate of lowest rank, and returns "" (NotFound) exactly when none of
\* the six exists.
C1_LocatorReturnsLowestRank ==
    LocatorReturned =>
        /\ \A k \in 1..6 :
              (CandidateExists(k) /\ \A j \in 1..(k - 1) : ~CandidateExists(j))
                  => binPath = CandidatePath[k]
        /\ (binPath = "") <=> (\A k \in 1..6 : ~CandidateExists(k))

C1_Witness ==
    /\ LocatorReturned
    /\ CandidateExists(5)
    /\ CandidateExists(6)
    /\ \A j \in 1..4 : ~CandidateExists(j)
    /\ fs0[P_execBin] = "dir"
    /\ binPath = P_execNext

\* C6 as stated: a call of findServerBinary leaves the filesystem and the
\* environment unchanged.
C6_LocatorChangesNothing ==
    [][pc = "ensureServerBinary" => (fs' = fs /\ env' = env /\ targetData' = targetData)]_vars

\* the locator reaches getExtensionDataDir, which finds no data directory and
\* may create one
LocatorCreatesDataDir ==
    /\ ~CandidateExists(1)
    /\ ~CandidateExists(2)
    /\ ~DataDirIsCwd(env, homeOk)
    /\ fs[P_dataDir] = "none"
    /\ writable

\* C6 amended: a call of findServerBinary leaves the environment, every file
\* and every other directory unchanged; it creates the extension data
\* directory, and only that, exactly when candidates 1 and 2 miss and the
\* directory is missing and can be created.
C6_LocatorOnlyCreatesDataDir ==
    [][pc = "ensureServerBinary" =>
          /\ env' = env
          /\ targetData' = targetData
          /\ \A p \in Paths \ {P_dataDir} : fs'[p] = fs[p]
          /\ IF LocatorCreatesDataDir
             THEN fs'[P_dataDir] = "dir"
             ELSE fs'[P_dataDir] = fs[P_dataDir]]_vars

C6_Witness ==
    /\ LocatorReturned
    /\ fs0[P_dataDir] = "none"
    /\ fs[P_dataDir] = "dir"
    /\ binPath = ""

\* the helper binary started and exited
HelperRan == pc = "exit" /\ helperExit # -1

\* C4 as stated: whenever the helper started, the launcher exits with the
\* helper's exit code.
C4_ExitCodeIsHelperExitCode == HelperRan => exitCode = helperExit

\* C4 amended: whenever the helper started, the launcher exits with 0 if the
\* helper exited with 0 and with 1 for every other exit code of the helper.
C4_ExitCodeIsZeroOrOne ==
    HelperRan => exitCode = (IF helperExit = 0 THEN 0 ELSE 1)

C4_Witness == HelperRan /\ helperExit = 2 /\ exitCode = 1

IsStdio == Len(osArgs) > 1 /\ osArgs[2] = "stdio"

\* C5 as stated: the credential tool runs at most once per invocation, once
\* in every stdio run and never in a version or usage run.
C5_TokenFetchedAtMostOnce ==
    /\ tokenCalls <= 1
    /\ pc = "exit" => tokenCalls = (IF IsStdio THEN 1 ELSE 0)

\* the locator ran and found nothing, so the release resolver was called
LocatorMissed ==
    /\ env.GITHUB_PERSONAL_ACCESS_TOKEN # <<>>
    /\ pc # "ensureServerBinary"
    /\ binPath = ""

\* C5 amended: the credential tool never runs in a version or usage run; in
\* a stdio run main runs it once, and the release resolver runs it a second
\* time whenever the locator finds no binary, so a run that downloads the
\* binary has run it exactly twice.
C5_TokenFetchedOncePerCaller ==
    /\ tokenCalls <= 2
    /\ pc = "exit" =>
          tokenCalls = (IF ~IsStdio THEN 0 ELSE IF LocatorMissed THEN 2 ELSE 1)

C5_Witness ==
    /\ pc = "exit"
    /\ downloadRequests = 1
    /\ helperExit = 0
    /\ tokenCalls = 2

\* downloadServerBinary created its temporary file
TmpWasCreated ==
    \/ pc \in {"save", "extract", "chmod"}
    \/ lastErr = "failed to save downloaded file"
    \/ extractKind # "none"

\* downloadServerBinary has returned
DownloadReturned == pc \in {"run", "exit"}

\* C7: once downloadServerBinary has created its temporary file, no file is
\* left at the temporary path when it returns, whichever way it returns.
C7_TmpRemovedOnReturn ==
    (TmpWasCreated /\ DownloadReturned) => fs[P_tmp] = "none"

C7_Witness ==
    /\ TmpWasCreated
    /\ DownloadReturned
    /\ goos = S_windows
    /\ lastErr = "failed to make binary executable"
    /\ fs[P_tmp] = "none"

\* entry e carries the base name of the helper binary in its name
NamesBinary(e) == Contains(e.Name, S_baseName)

\* the extraction ended with "binary not found" and nothing was installed
NotFoundAndNothingWritten ==
    /\ pc = "exit"
    /\ exitCode = 1
    /\ lastErr \in {ErrNotFoundZip, ErrNotFoundTarGz}
    /\ targetCreates = 0
    /\ chmodCalls = 0
    /\ fs[P_target] = fs0[P_target]
    /\ targetData = <<>>

\* C8 as stated: an archive (.tar.gz or .zip) that can be read and holds no
\* regular-file entry named after the binary ends the install with "binary
\* not found", creates no target file and sets no permission.
C8_NoRegularEntryIsNotFound ==
    (/\ extractKind \in {"zip", "tar.gz"}
     /\ body.wellFormed
     /\ \A i \in 1..Len(body.entries) :
           ~(NamesBinary(body.entries[i]) /\ body.entries[i].Type = "reg"))
        => NotFoundAndNothingWritten

\* C8 amended: a .tar.gz archive that holds no regular-file entry named
\* after the binary, and a .zip archive that holds no entry named after the
\* binary other than entries whose name ends in "/", end the install with
\* "binary not found", create no target file and set no permission.
C8_NoMatchingEntryIsNotFound ==
    /\ (/\ extractKind = "tar.gz"
        /\ body.wellFormed
        /\ \A i \in 1..Len(body.entries) :
              ~(NamesBinary(body.entries[i]) /\ body.entries[i].Type = "reg"))
           => (NotFoundAndNothingWritten /\ lastErr = ErrNotFoundTarGz)
    /\ (/\ extractKind = "zip"
        /\ body.wellFormed
        /\ \A i \in 1..Len(body.entries) :
              ~(NamesBinary(body.entries[i]) /\ ~HasSuffix(body.entries[i].Name, S_slash)))
           => (NotFoundAndNothingWritten /\ lastErr = ErrNotFoundZip)

C8_Witness ==
    /\ extractKind = "tar.gz"
    /\ body.wellFormed
    /\ \E i \in 1..Len(body.entries) :
          NamesBinary(body.entries[i]) /\ body.entries[i].Type = "symlink"
    /\ NotFoundAndNothingWritten

\* the rules a to d of the Release Resolver, as the specification words them
RuleHolds(r, name) ==
    LET n == ToLower(name)
    IN  CASE r = 1 -> Contains(n, goos) /\ Contains(n, goarch)
          [] r = 2 -> /\ goos = S_darwin
                      /\ \E v \in {S_mac, S_macos, S_osx} : Contains(n, v)
                      /\ \E a \in {goarch, S_x86_64, S_amd64} : Contains(n, a)
          [] r = 3 -> goarch = S_amd64 /\ Contains(n, goos) /\ Contains(n, S_x86_64)
          [] r = 4 -> /\ Contains(n, goos)
                      /\ \A m \in {S_sha, S_md5, S_src, S_source} : ~Contains(n, m)

\* some asset of the listing satisfies rule r
RuleMatches(r) == \E i \in 1..Len(release) : RuleHolds(r, release[i].Name)

\* the release listing was received and decoded
ListingDecoded ==
    /\ releaseRequests > 0
    /\ lastErr \notin {"failed to get latest release info",
                       "failed to get latest release info: HTTP",
                       "failed to parse release info"}

\* C2: when some asset satisfies a rule, the resolver returns the URL of an
\* asset that satisfies the earliest rule any asset satisfies.
C2_EarliestRuleWins ==
    (ListingDecoded /\ \E r \in 1..4 : RuleMatches(r)) =>
        LET e == CHOOSE r \in 1..4 :
                    RuleMatches(r) /\ \A q \in 1..(r - 1) : ~RuleMatches(q)
        IN  \E i \in 1..Len(release) :
               /\ release[i].BrowserDownloadURL = assetURL
               /\ RuleHolds(e, release[i].Name)

C2_Witness ==
    /\ ListingDecoded
    /\ goos = S_linux
    /\ goarch = S_amd64
    /\ release = <<Asset(N_linux_raw), Asset(N_linux_amd64)>>
    /\ assetURL = Asset(N_linux_amd64).BrowserDownloadURL

DarwinArm64 == goos = S_darwin /\ goarch = S_arm64

\* C3 as stated: on darwin/arm64 a listing whose only asset is
\* server-macos.zip yields that asset's URL and no error.
C3_MacosZipSelected ==
    (ListingDecoded /\ DarwinArm64 /\ release = <<Asset(N_macos)>>) =>
        /\ assetURL = Asset(N_macos).BrowserDownloadURL
        /\ lastErr \notin {ErrNoSuitable, ErrNoSuitableBuildFromSource}

\* C3 amended: on darwin/arm64 a listing whose only asset is
\* server-macos-arm64.zip yields that asset's URL through rule b (rule a does
\* not hold of it); a listing whose only asset is server-macos.zip, which
\* names no architecture, matches no rule and yields the generic "no suitable
\* binary" error.
C3_MacosArchZipSelected ==
    /\ (ListingDecoded /\ DarwinArm64 /\ release = <<Asset(N_macos_arm64)>>) =>
          /\ assetURL = Asset(N_macos_arm64).BrowserDownloadURL
          /\ ~RuleHolds(1, N_macos_arm64)
          /\ RuleHolds(2, N_macos_arm64)
    /\ (ListingDecoded /\ DarwinArm64 /\ release = <<Asset(N_macos)>>) =>
          /\ assetURL = <<>>
          /\ lastErr = ErrNoSuitable
          /\ exitCode = 1

C3_Witness ==
    /\ ListingDecoded
    /\ DarwinArm64
    /\ release = <<Asset(N_macos_arm64)>>
    /\ assetURL = Asset(N_macos_arm64).BrowserDownloadURL

\* C9: when no asset satisfies any rule, the resolver returns an error and no
\* URL (the from-source suggestion exactly on darwin/amd64), no download is
\* requested and nothing is written to the target path.
C9_NoMatchIsError ==
    (ListingDecoded /\ \A r \in 1..4 : ~RuleMatches(r)) =>
        /\ pc = "exit"
        /\ exitCode = 1
        /\ assetURL = <<>>
        /\ lastErr = (IF goos = S_darwin /\ goarch = S_amd64
                      THEN ErrNoSuitableBuildFromSource
                      ELSE ErrNoSuitable)
        /\ downloadRequests = 0
        /\ targetCreates = 0
        /\ fs[P_target] = fs0[P_target]
        /\ fs[P_tmp] = "none"

C9_Witness ==
    /\ ListingDecoded
    /\ DarwinArm64
    /\ Len(release) > 0
    /\ \A r \in 1..4 : ~RuleMatches(r)
    /\ lastErr = ErrNoSuitable

\* both installers have returned
BothInstalled == Len(finished) = 2

\* C10: once both concurrent installers have finished, the target file holds
\* a complete payload (the claim names the payload of the installer that
\* finished last) and is never a truncated or mixed result of the two; stated
\* in its weakest form: the file holds the complete payload of one of them.
C10_TargetHoldsOnePayload ==
    BothInstalled =>
        \E w \in Installers : inodes[targetInode].data = Payload(writers[w].payload)
====
